---- MODULE Spec2Model ----
(***************************************************************************)
(* Model of scripts/kicad.py (switch_placement) and scripts/truth.py       *)
(* (truth) of tdkeys: the placement of the 22 switches and their diodes    *)
(* on a KiCad board and the regeneration of the board outline.             *)
(*                                                                         *)
(* Lengths.  The script computes in millimetres with Python floats and     *)
(* hands pcbnew.FromMM(...) results (integer nanometres) to the board.     *)
(* Here a millimetre quantity is a fixed-point integer with FP units per   *)
(* millimetre (0.1 nm); every parameter is a multiple of 0.01 mm, so sums  *)
(* and differences are exact.  FromMM multiplies by IU_PER_MM and          *)
(* truncates toward zero as int() does; ToMM divides by IU_PER_MM.         *)
(* cos and sin are tabulated to four decimals for the angles in use.       *)
(***************************************************************************)
EXTENDS Integers, Sequences, FiniteSets

VARIABLES
    params,      \* the dict returned by truth(): name -> value
    present,     \* references of the footprints that are on the board
    pos,         \* board: footprint reference -> <<x, y>> in internal units
    orient,      \* board: footprint reference -> orientation in degrees
    drawings,    \* board.GetDrawings(): sequence of drawing records
    nextId,      \* identity of the next drawing object created
    pc,          \* position of the script
    col, row, switch_num,   \* loop variables of the grid loop
    thumb_i,     \* index of the loop over [21, 22]
    ops,         \* board API calls made by the current run, in order
    board0,      \* the board as it was when the current run started
    initDrawings, \* the drawings on the board before the first run
    runs         \* number of runs started

vars == <<params, present, pos, orient, drawings, nextId, pc, col, row,
          switch_num, thumb_i, ops, board0, initDrawings, runs>>

----------------------------------------------------------------------------
(* Bounds *)

MaxRuns == 2

----------------------------------------------------------------------------
(* Units: pcbnew.FromMM / pcbnew.ToMM *)

IU_PER_MM == 1000 * 1000

FP == 10 * IU_PER_MM

MM(n) == n * FP

Centi(n) == n * (FP \div 100)

Abs(a) == IF a >= 0 THEN a ELSE -a

TruncDiv(a, d) == IF a >= 0 THEN a \div d ELSE -((-a) \div d)

FromMM(v) == TruncDiv(v, FP \div IU_PER_MM)

ToMM(v) == v \div IU_PER_MM

----------------------------------------------------------------------------
(* truth.py *)

ParamNames == {"SwitchSpacing", "FrameBorder", "Col0Offset", "Col1Offset",
               "Col2Offset", "Col3Offset", "Col4Offset", "Col5Offset",
               "ThumbRadius", "ThumbRotationAngle"}

truth ==
    [k \in ParamNames |->
        CASE k = "SwitchSpacing" -> Centi(1950)
          [] k = "FrameBorder" -> MM(5)
          [] k = "Col0Offset" -> MM(0)
          [] k = "Col1Offset" -> MM(4)
          [] k = "Col2Offset" -> MM(10)
          [] k = "Col3Offset" -> MM(17)
          [] k = "Col4Offset" -> MM(12)
          [] k = "Col5Offset" -> MM(9)
          [] k = "ThumbRadius" -> Centi(9228)
          [] k = "ThumbRotationAngle" -> -12]

(* Other contents of truth.py: the values are meant to be edited. *)
truthFlat ==
    [k \in ParamNames |->
        CASE k = "SwitchSpacing" -> MM(19)
          [] k = "FrameBorder" -> MM(0)
          [] k = "ThumbRadius" -> MM(30)
          [] k = "ThumbRotationAngle" -> 30
          [] OTHER -> MM(0)]

truthStaggered ==
    [k \in ParamNames |->
        CASE k = "SwitchSpacing" -> MM(18)
          [] k = "FrameBorder" -> MM(3)
          [] k = "Col3Offset" -> MM(25)
          [] k = "Col5Offset" -> MM(18)
          [] k = "ThumbRadius" -> MM(0)
          [] k = "ThumbRotationAngle" -> 0
          [] OTHER -> MM(2)]

ParamValues == {truth, truthFlat, truthStaggered}

Without(p, k) == [n \in (DOMAIN p) \ {k} |-> p[n]]

ParamSets == ParamValues \cup {Without(p, k) : p \in ParamValues, k \in ParamNames}

----------------------------------------------------------------------------
(* The board (pcbnew) *)

SW(n) == <<"SW", n>>

D(n) == <<"D", n>>

Refs == {SW(n) : n \in 1..22} \cup {D(n) : n \in 1..22}

NoRef == <<"", 0>>

AUTO_GENERATED_BORDER == "AUTO_GENERATED_BORDER"

(* board.FindFootprintByReference(ref): the footprint, or None *)
Found(ref) == ref \in present

(* One entry of the log of board API calls. *)
Call(name, ref, a, b) == [op |-> name, ref |-> ref, a |-> a, b |-> b]

FindCall(ref) == Call("Find", ref, 0, 0)

SetPositionCall(ref, x, y) == Call("SetPosition", ref, x, y)

SetOrientationCall(ref, deg) == Call("SetOrientation", ref, deg, 0)

RemoveCall(d) == Call("Remove", NoRef, d.id, 0)

AddCall(d) == Call("Add", NoRef, d.id, 0)

RefreshCall == Call("Refresh", NoRef, 0, 0)

(* The calls that change the board. *)
Mutations == {"SetPosition", "SetOrientation", "Remove", "Add"}

(* A user-drawn segment and a border segment left by an earlier run. *)
Drawing(id, comment, x1, y1, x2, y2) ==
    [id |-> id, comment |-> comment, x1 |-> x1, y1 |-> y1, x2 |-> x2, y2 |-> y2,
     layer |-> "Edge_Cuts", width |-> FromMM(Centi(15))]

UserDrawing(id, comment) ==
    [id |-> id, comment |-> comment, x1 |-> 0, y1 |-> 0, x2 |-> FromMM(MM(id)),
     y2 |-> 0, layer |-> "F_SilkS", width |-> FromMM(Centi(12))]

InitialDrawings ==
    { <<>>,
      <<UserDrawing(1, "")>>,
      <<Drawing(1, AUTO_GENERATED_BORDER, 0, 0, 1, 0),
        UserDrawing(2, "logo"),
        Drawing(3, AUTO_GENERATED_BORDER, 1, 0, 1, 1),
        Drawing(4, AUTO_GENERATED_BORDER, 1, 1, 0, 1),
        Drawing(5, AUTO_GENERATED_BORDER, 0, 1, 0, 0)>>,
      <<UserDrawing(1, "auto_generated_border"),
        Drawing(2, AUTO_GENERATED_BORDER, 0, 0, 1, 0),
        UserDrawing(3, ""),
        Drawing(4, AUTO_GENERATED_BORDER, 1, 0, 1, 1)>> }

InitialAbsent ==
    { {}, {SW(5)}, {D(7)}, {SW(20)}, {SW(21)}, {SW(19), D(22)}, {SW(22), D(21)},
      {SW(16), SW(17), SW(18), SW(20)}, Refs }

InitialOrientations == {0, 180}

Init ==
    /\ params \in ParamSets
    /\ \E absent \in InitialAbsent : present = Refs \ absent
    /\ pos = [r \in Refs |-> <<0, 0>>]
    /\ \E o \in InitialOrientations : orient = [r \in Refs |-> o]
    /\ drawings \in InitialDrawings
    /\ nextId = Len(drawings) + 1
    /\ pc = "idle"
    /\ col = 0 /\ row = 0 /\ switch_num = 1 /\ thumb_i = 0
    /\ ops = <<>>
    /\ board0 = [pos |-> pos, orient |-> orient, drawings |-> drawings]
    /\ initDrawings = drawings
    /\ runs = 0

----------------------------------------------------------------------------
(* switch_placement: parameters and geometry *)

GridParamNames == {"FrameBorder", "SwitchSpacing", "Col0Offset", "Col1Offset",
                   "Col2Offset", "Col3Offset", "Col4Offset", "Col5Offset"}

ThumbParamNames == {"ThumbRadius", "ThumbRotationAngle"}

frame_border == params["FrameBorder"]

switch_spacing == params["SwitchSpacing"]

diode_offset == MM(8)

col_offsets ==
    [c \in 0..5 |->
        CASE c = 0 -> params["Col0Offset"]
          [] c = 1 -> params["Col1Offset"]
          [] c = 2 -> params["Col2Offset"]
          [] c = 3 -> params["Col3Offset"]
          [] c = 4 -> params["Col4Offset"]
          [] c = 5 -> params["Col5Offset"]]

kicad_offset_x == MM(40)

kicad_offset_y == MM(120)

num_cols == 6

num_rows == 3

(* x and y of the grid loop body, lines 49-50 *)
GridX(c) == frame_border + c * switch_spacing + kicad_offset_x

GridYByRow(c, r) == frame_border + r * switch_spacing + col_offsets[r]

GridY(c, r) == frame_border + r * switch_spacing + col_offsets[c]

(* Negate y to convert from y-up to y-down, lines 61, 91, 116, 156, 173 *)
BoardY(y) == -y + kicad_offset_y

sw20_x == frame_border + 5 * switch_spacing + kicad_offset_x

sw20_y == frame_border - switch_spacing + col_offsets[5]

sw19_x == frame_border + 4 * switch_spacing + kicad_offset_x

sw19_y == sw20_y

thumb_radius == params["ThumbRadius"]

thumb_angle == params["ThumbRotationAngle"]

circle_center_x == sw20_x

circle_center_y == sw20_y - thumb_radius

angle_degOffByOne(i) == 90 + i * thumb_angle

angle_deg(i) == 90 + (i + 1) * thumb_angle

(* math.cos and math.sin of an angle in degrees, times 10^4 *)
Cos10k(deg) ==
    CASE deg = 90 -> 0
      [] deg = 78 -> 2079
      [] deg = 66 -> 4067
      [] deg = 120 -> -5000
      [] deg = 150 -> -8660

Sin10k(deg) ==
    CASE deg = 90 -> 10000
      [] deg = 78 -> 9781
      [] deg = 66 -> 9135
      [] deg = 120 -> 8660
      [] deg = 150 -> 5000

(* v * t / 10^4 for a length v >= 0, without leaving 32 bits *)
Scale(v, t) ==
    LET m == Abs(t)
        p == (v \div 10000) * m + ((v % 10000) * m) \div 10000
    IN  IF t >= 0 THEN p ELSE -p

thumb_x(i) == circle_center_x + Scale(thumb_radius, Cos10k(angle_deg(i)))

thumb_y(i) == circle_center_y + Scale(thumb_radius, Sin10k(angle_deg(i)))

diode_x(i) == thumb_x(i) + Scale(diode_offset, Cos10k(angle_deg(i)))

diode_y(i) == thumb_y(i) + Scale(diode_offset, Sin10k(angle_deg(i)))

board_widthFromPlaced ==
    LET cs == {c \in 0..5 : \E r \in 0..2 : Found(SW(c * 3 + r + 1))}
    IN  IF cs = {} THEN 2 * frame_border
        ELSE 2 * frame_border
             + ((CHOOSE c \in cs : \A e \in cs : e <= c)
                - (CHOOSE c \in cs : \A e \in cs : c <= e)) * switch_spacing

board_width == 2 * frame_border + 5 * switch_spacing

board_height == 2 * frame_border + 2 * switch_spacing + Abs(circle_center_y - frame_border)

border_x0 == kicad_offset_x

border_y0 == kicad_offset_y

border_x1 == board_width + kicad_offset_x

border_y1 == kicad_offset_y - board_height

border_lines ==
    << <<border_x0, border_y0, border_x1, border_y0>>,
       <<border_x1, border_y0, border_x1, border_y1>>,
       <<border_x1, border_y1, border_x0, border_y1>>,
       <<border_x0, border_y1, border_x0, border_y0>> >>

----------------------------------------------------------------------------
(* switch_placement: the calls made on the board *)

IsAutoBorderNever(d) == FALSE

IsAutoBorderAlways(d) == TRUE

(* drawing.GetComment() == "AUTO_GENERATED_BORDER", line 19 *)
IsAutoBorder(d) == d.comment = AUTO_GENERATED_BORDER

(* The diode of switch n: looked up and, when found, positioned. *)
DiodeCalls(n, dx, dy, rotated, deg) ==
    <<FindCall(D(n))>> \o
    (IF Found(D(n))
        THEN <<SetPositionCall(D(n), dx, dy)>> \o
             (IF rotated THEN <<SetOrientationCall(D(n), deg)>> ELSE <<>>)
        ELSE <<>>)

PairCallsDiodeFirst(n, sx, sy, dx, dy, rotated, deg) ==
    <<FindCall(SW(n)), FindCall(D(n))>> \o
    (IF Found(SW(n)) /\ Found(D(n))
        THEN <<SetPositionCall(SW(n), sx, sy), SetPositionCall(D(n), dx, dy)>> \o
             (IF rotated
                 THEN <<SetOrientationCall(SW(n), deg), SetOrientationCall(D(n), deg)>>
                 ELSE <<>>)
        ELSE <<>>)

(* Switch n and its diode: the diode is handled inside "if sw:". *)
PairCalls(n, sx, sy, dx, dy, rotated, deg) ==
    <<FindCall(SW(n))>> \o
    (IF Found(SW(n))
        THEN <<SetPositionCall(SW(n), sx, sy)>> \o
             (IF rotated THEN <<SetOrientationCall(SW(n), deg)>> ELSE <<>>) \o
             DiodeCalls(n, dx, dy, rotated, deg)
        ELSE <<>>)

(* footprint.SetPosition / SetOrientation as the board applies them *)
PosAfter(p, calls) ==
    [r \in Refs |->
        IF \E i \in DOMAIN calls : calls[i].op = "SetPosition" /\ calls[i].ref = r
        THEN LET i == CHOOSE j \in DOMAIN calls :
                          calls[j].op = "SetPosition" /\ calls[j].ref = r
             IN  <<calls[i].a, calls[i].b>>
        ELSE p[r]]

OrientAfter(o, calls) ==
    [r \in Refs |->
        IF \E i \in DOMAIN calls : calls[i].op = "SetOrientation" /\ calls[i].ref = r
        THEN LET i == CHOOSE j \in DOMAIN calls :
                          calls[j].op = "SetOrientation" /\ calls[j].ref = r
             IN  calls[i].a
        ELSE o[r]]

Place(calls) ==
    /\ pos' = PosAfter(pos, calls)
    /\ orient' = OrientAfter(orient, calls)
    /\ ops' = ops \o calls

----------------------------------------------------------------------------
(* switch_placement, step by step *)

(* lines 13-15 and the call on line 215 *)
Begin ==
    /\ pc \in {"idle", "done", "failed"}
    /\ runs < MaxRuns
    /\ runs' = runs + 1
    /\ pc' = "cleanup"
    /\ ops' = <<>>
    /\ board0' = [pos |-> pos, orient |-> orient, drawings |-> drawings]
    /\ col' = 0 /\ row' = 0 /\ switch_num' = 1 /\ thumb_i' = 0
    /\ UNCHANGED <<params, present, pos, orient, drawings, nextId, initDrawings>>

(* lines 17-20: remove the borders of earlier runs *)
CleanBorders ==
    /\ pc = "cleanup"
    /\ LET removed == SelectSeq(drawings, IsAutoBorder)
       IN  /\ drawings' = SelectSeq(drawings, LAMBDA d : ~IsAutoBorder(d))
           /\ ops' = ops \o [i \in 1..Len(removed) |-> RemoveCall(removed[i])]
    /\ pc' = "params"
    /\ UNCHANGED <<params, present, pos, orient, nextId, col, row, switch_num,
                   thumb_i, board0, initDrawings, runs>>

(* lines 23-44: a missing key raises KeyError *)
GetGridParams ==
    /\ pc = "params"
    /\ pc' = IF GridParamNames \subseteq DOMAIN params THEN "grid" ELSE "failed"
    /\ col' = 0 /\ row' = 0 /\ switch_num' = 1
    /\ UNCHANGED <<params, present, pos, orient, drawings, nextId, thumb_i, ops,
                   board0, initDrawings, runs>>

(* lines 46-79: one iteration of the grid loops *)
PlaceGridSwitch ==
    /\ pc = "grid"
    /\ LET x == GridX(col)
           y == GridY(col, row)
       IN  Place(PairCalls(switch_num, FromMM(x), FromMM(BoardY(y)),
                           FromMM(x), FromMM(BoardY(y) + diode_offset), FALSE, 0))
    /\ switch_num' = switch_num + 1
    /\ IF row + 1 < num_rows
          THEN /\ row' = row + 1 /\ col' = col /\ pc' = "grid"
          ELSE /\ row' = 0
               /\ IF col + 1 < num_cols
                     THEN col' = col + 1 /\ pc' = "grid"
                     ELSE col' = col /\ pc' = "sw20"
    /\ UNCHANGED <<params, present, drawings, nextId, thumb_i, board0,
                   initDrawings, runs>>

(* lines 84-106 *)
PlaceSW20 ==
    /\ pc = "sw20"
    /\ Place(PairCalls(20, FromMM(sw20_x), FromMM(BoardY(sw20_y)),
                       FromMM(sw20_x), FromMM(BoardY(sw20_y) + ToMM(diode_offset)),
                       FALSE, 0))
    /\ pc' = "sw19"
    /\ UNCHANGED <<params, present, drawings, nextId, col, row, switch_num,
                   thumb_i, board0, initDrawings, runs>>

(* lines 109-131 *)
PlaceSW19 ==
    /\ pc = "sw19"
    /\ Place(PairCalls(19, FromMM(sw19_x), FromMM(BoardY(sw19_y)),
                       FromMM(sw19_x), FromMM(BoardY(sw19_y) + ToMM(diode_offset)),
                       FALSE, 0))
    /\ pc' = "thumbparams"
    /\ UNCHANGED <<params, present, drawings, nextId, col, row, switch_num,
                   thumb_i, board0, initDrawings, runs>>

(* lines 134-139: a missing key raises KeyError *)
GetThumbParams ==
    /\ pc = "thumbparams"
    /\ pc' = IF ThumbParamNames \subseteq DOMAIN params THEN "thumb" ELSE "failed"
    /\ thumb_i' = 0
    /\ UNCHANGED <<params, present, pos, orient, drawings, nextId, col, row,
                   switch_num, ops, board0, initDrawings, runs>>

(* lines 145-180: one iteration of the loop over [21, 22] *)
PlaceThumbSwitch ==
    /\ pc = "thumb"
    /\ LET sw_num == 21 + thumb_i
       IN  Place(PairCalls(sw_num,
                           FromMM(thumb_x(thumb_i)), FromMM(BoardY(thumb_y(thumb_i))),
                           FromMM(diode_x(thumb_i)), FromMM(BoardY(diode_y(thumb_i))),
                           TRUE, angle_deg(thumb_i)))
    /\ IF thumb_i + 1 < 2
          THEN thumb_i' = thumb_i + 1 /\ pc' = "thumb"
          ELSE thumb_i' = thumb_i /\ pc' = "border"
    /\ UNCHANGED <<params, present, drawings, nextId, col, row, switch_num,
                   board0, initDrawings, runs>>

(* lines 182-211: the four segments of the outline *)
CreateBorder ==
    /\ pc = "border"
    /\ LET lines == [i \in 1..4 |->
                        Drawing(nextId + i - 1, AUTO_GENERATED_BORDER,
                                FromMM(border_lines[i][1]), FromMM(border_lines[i][2]),
                                FromMM(border_lines[i][3]), FromMM(border_lines[i][4]))]
       IN  /\ drawings' = drawings \o lines
           /\ ops' = ops \o [i \in 1..4 |-> AddCall(lines[i])]
    /\ nextId' = nextId + 4
    /\ pc' = "refresh"
    /\ UNCHANGED <<params, present, pos, orient, col, row, switch_num, thumb_i,
                   board0, initDrawings, runs>>

(* line 213 *)
Refresh ==
    /\ pc = "refresh"
    /\ ops' = Append(ops, RefreshCall)
    /\ pc' = "done"
    /\ UNCHANGED <<params, present, pos, orient, drawings, nextId, col, row,
                   switch_num, thumb_i, board0, initDrawings, runs>>

Next ==
    \/ Begin
    \/ CleanBorders
    \/ GetGridParams
    \/ PlaceGridSwitch
    \/ PlaceSW20
    \/ PlaceSW19
    \/ GetThumbParams
    \/ PlaceThumbSwitch
    \/ CreateBorder
    \/ Refresh

Spec == Init /\ [][Next]_vars

----------------------------------------------------------------------------
(* Vocabulary of the properties *)

AllParamsPresent == DOMAIN params = ParamNames

Tagged(ds) == {i \in DOMAIN ds : ds[i].comment = "AUTO_GENERATED_BORDER"}

Untagged(ds) == {i \in DOMAIN ds : ds[i].comment # "AUTO_GENERATED_BORDER"}

OnBoard(d) == \E j \in DOMAIN drawings : drawings[j] = d

IdOnBoard(d) == \E j \in DOMAIN drawings : drawings[j].id = d.id

CallsOf(name, ref) == {i \in DOMAIN ops : ops[i].op = name /\ ops[i].ref = ref}

Positioned(ref) == CallsOf("SetPosition", ref) # {}

MutationCalls == {i \in DOMAIN ops : ops[i].op \in Mutations}

MinOf(S) == CHOOSE m \in S : \A e \in S : m <= e

MaxOf(S) == CHOOSE m \in S : \A e \in S : e <= m

BorderXs == {drawings[i].x1 : i \in Tagged(drawings)} \cup {drawings[i].x2 : i \in Tagged(drawings)}

BorderYs == {drawings[i].y1 : i \in Tagged(drawings)} \cup {drawings[i].y2 : i \in Tagged(drawings)}

InsideBorder(p) ==
    /\ MinOf(BorderXs) <= p[1] /\ p[1] <= MaxOf(BorderXs)
    /\ MinOf(BorderYs) <= p[2] /\ p[2] <= MaxOf(BorderYs)

ColOffsetName(c) ==
    <<"Col0Offset", "Col1Offset", "Col2Offset", "Col3Offset", "Col4Offset", "Col5Offset">>[c + 1]

----------------------------------------------------------------------------
(* C1: after each completed run of switch_placement, whatever drawings     *)
(* (tagged or not) and footprints the board started with, the board holds  *)
(* exactly 4 drawings whose comment is AUTO_GENERATED_BORDER.              *)
C1_FourBordersAfterEachRun ==
    pc = "done" => Cardinality(Tagged(drawings)) = 4

C1_Witness ==
    /\ pc = "done"
    /\ runs >= 2
    /\ Cardinality(Tagged(initDrawings)) = 2

C3_PartialBoardRunsToCompletion ==
    AllParamsPresent =>
        /\ pc # "failed"
        /\ pc \notin {"idle", "done"} => ENABLED Next
        /\ pc = "done" =>
            /\ \A n \in 1..22 : Found(SW(n)) => Positioned(SW(n))
            /\ Cardinality({i \in DOMAIN ops : ops[i].op = "Add"}) = 4
            /\ \A i \in DOMAIN ops : ops[i].op = "Add" =>
                   \E j \in Tagged(drawings) : drawings[j].id = ops[i].a
            /\ Len(ops) > 0
            /\ \A i \in DOMAIN ops : ops[i].op = "Refresh" <=> i = Len(ops)

C3_Witness ==
    /\ pc = "done"
    /\ ~Found(SW(5))
    /\ \A n \in 6..18 : Positioned(SW(n))
    /\ Cardinality(Tagged(drawings)) = 4

(* C4: after a completed run with all footprints present, every placed     *)
(* switch SW1..SW22 lies inside or on the rectangle drawn by the 4 tagged   *)
(* border segments.                                                         *)
C4_BorderEnclosesSwitches ==
    (pc = "done" /\ present = Refs) =>
        \A n \in 1..22 : InsideBorder(pos[SW(n)])

(* C5: the switch addressed for column c, row r is SWn with n = c*3+r+1,   *)
(* each of SW1..SW18 is looked up exactly once, and when present it is set  *)
(* to (FrameBorder + c*SwitchSpacing + 40 mm,                               *)
(* -(FrameBorder + r*SwitchSpacing + ColOffset[c]) + 120 mm).               *)
C5_GridClosedForm ==
    /\ pc = "grid" => (col \in 0..5 /\ row \in 0..2 /\ switch_num = col * 3 + row + 1)
    /\ \A c \in 0..5 : \A r \in 0..2 :
         LET n == c * 3 + r + 1
         IN  /\ \A i \in CallsOf("SetPosition", SW(n)) :
                  /\ ops[i].a = FromMM(params["FrameBorder"] + c * params["SwitchSpacing"] + MM(40))
                  /\ ops[i].b = FromMM(-(params["FrameBorder"] + r * params["SwitchSpacing"]
                                         + params[ColOffsetName(c)]) + MM(120))
                  /\ pos[SW(n)] = <<ops[i].a, ops[i].b>>
             /\ pc \in {"sw20", "sw19", "thumbparams", "thumb", "border", "refresh", "done"} =>
                  /\ Cardinality(CallsOf("Find", SW(n))) = 1
                  /\ Found(SW(n)) => Cardinality(CallsOf("SetPosition", SW(n))) = 1

C5_Witness ==
    /\ pc = "done"
    /\ params = truth
    /\ Positioned(SW(1))
    /\ pos[SW(1)] = <<45 * IU_PER_MM, 115 * IU_PER_MM>>
    /\ Positioned(SW(18))

(* C6: the cleanup removes exactly the drawings tagged                      *)
(* AUTO_GENERATED_BORDER: every drawing with another (or an empty) tag that *)
(* was on the board before the first run is still there, unchanged, and     *)
(* after a run no tagged drawing that existed before that run is left.      *)
C6_CleanupRemovesExactlyTagged ==
    /\ \A i \in Untagged(initDrawings) : OnBoard(initDrawings[i])
    /\ \A i \in Untagged(board0.drawings) : OnBoard(board0.drawings[i])
    /\ pc \in {"done", "failed"} =>
         \A i \in Tagged(board0.drawings) : ~IdOnBoard(board0.drawings[i])

C6_Witness ==
    /\ pc = "done"
    /\ runs >= 2
    /\ Cardinality(Tagged(initDrawings)) = 2
    /\ Cardinality(Untagged(initDrawings)) = 2
    /\ Cardinality(Tagged(board0.drawings)) = 4

(* C7: a reference not found on the board skips only that component: every *)
(* footprint that is on the board, a diode whose switch is absent included, *)
(* has its position set by a completed run.                                 *)
C7_OnlyMissingComponentSkipped ==
    pc = "done" => \A r \in present : Positioned(r)

(* C8 (as stated): the border of a partial run comes from the extents of    *)
(* the positions that run computed, so its width spans the grid columns     *)
(* that had a switch placed.                                                *)
C8_BorderFromPlacedExtents ==
    (pc = "done" /\ \E n \in 1..18 : Positioned(SW(n))) =>
        LET cs == {c \in 0..5 : \E r \in 0..2 : Positioned(SW(c * 3 + r + 1))}
        IN  MaxOf(BorderXs) - MinOf(BorderXs)
              = FromMM(2 * params["FrameBorder"]
                       + (MaxOf(cs) - MinOf(cs)) * params["SwitchSpacing"])

(* C8 (amended): the border of a completed run, partial or not, is the      *)
(* rectangle given by the parameters alone: runs with identical parameters  *)
(* draw the same rectangle whatever footprints are on the board.            *)
C8_BorderFromParametersOnly ==
    pc = "done" =>
        LET w == 2 * params["FrameBorder"] + 5 * params["SwitchSpacing"]
            h == 2 * params["FrameBorder"] + 2 * params["SwitchSpacing"]
                 + Abs(params["Col5Offset"] - params["SwitchSpacing"] - params["ThumbRadius"])
        IN  /\ BorderXs = {FromMM(MM(40)), FromMM(MM(40) + w)}
            /\ BorderYs = {FromMM(MM(120)), FromMM(MM(120) - h)}

C8_Witness ==
    /\ pc = "done"
    /\ \A n \in 16..18 : ~Positioned(SW(n))
    /\ ~Positioned(SW(20))
    /\ Positioned(SW(1))

(* C9: after a completed run with SW21, SW22, D21, D22 present, SW21 is at  *)
(* 90 + ThumbRotationAngle degrees, SW22 at 90 + 2*ThumbRotationAngle, each *)
(* diode as its switch, and no other footprint has had its orientation set. *)
C9_ThumbOrientations ==
    (pc = "done" /\ {SW(21), SW(22), D(21), D(22)} \subseteq present) =>
        /\ orient[SW(21)] = 90 + params["ThumbRotationAngle"]
        /\ orient[SW(22)] = 90 + 2 * params["ThumbRotationAngle"]
        /\ orient[D(21)] = orient[SW(21)]
        /\ orient[D(22)] = orient[SW(22)]
        /\ \A n \in 1..20 :
             /\ orient[SW(n)] = board0.orient[SW(n)]
             /\ orient[D(n)] = board0.orient[D(n)]
             /\ CallsOf("SetOrientation", SW(n)) = {}
             /\ CallsOf("SetOrientation", D(n)) = {}

C9_Witness ==
    /\ pc = "done"
    /\ present = Refs
    /\ params = truth
    /\ orient[SW(21)] = 78
    /\ orient[D(22)] = 66
    /\ orient[SW(20)] = 180

(* C10: D19 and D20 follow the rule of the grid diodes: same board x as     *)
(* the switch, board y exactly 8 mm greater.                                *)
C10_OffsetThumbDiodes8mm ==
    pc = "done" =>
        \A n \in {19, 20} :
            (Found(SW(n)) /\ Found(D(n))) =>
                pos[D(n)] = <<pos[SW(n)][1], pos[SW(n)][2] + 8 * IU_PER_MM>>

====
